---- MODULE Spec2Model ----
(***************************************************************************)
(* Model of assistant_bot.py: the Phone and Birthday fields, Record, the   *)
(* AddressBook with get_upcoming_birthdays, the input_error decorator, the *)
(* command handlers and the command loop of main.                          *)
(*                                                                         *)
(* A Python str is a sequence of characters; a character is a one-element  *)
(* TLA+ string, except the non-ASCII digit, which is written "U+0663"      *)
(* (ARABIC-INDIC DIGIT THREE).                                             *)
(***************************************************************************)
EXTENDS Integers, Sequences, FiniteSets, TLC

VARIABLES rec, rlast, book, last, loop

vars == <<rec, rlast, book, last, loop>>

----------------------------------------------------------------------------
(* Bounds of the model *)

\* number of distinct well-formed ASCII phone numbers offered to a Record
NumPhones == 3
\* number of distinct well-formed ASCII phone numbers offered to the handlers
NumBookPhones == 2
\* number of contact names offered to the handlers
NumNames == 2
\* number of contact names offered to the birthday commands
NumBdayNames == 2
\* longest argument list handed to a handler
MaxArgs == 4
\* number of consecutive days, from each anchor date, that today ranges over
TodaySpan == 7

(* Program constants *)
PhoneLen == 10
WindowDays == 6
SaturdayShift == 2
SundayShift == 1

----------------------------------------------------------------------------
(* Characters and strings *)

DigitChars == <<"0", "1", "2", "3", "4", "5", "6", "7", "8", "9">>
AsciiDigits == {DigitChars[i] : i \in 1..10}
\* characters outside 0-9 for which str.isdigit() is true and int() works
UnicodeDigits == {"U+0663"}

\* int() of one decimal character (ASCII or not)
DigitVal(c) == IF c = "U+0663" THEN 3
               ELSE (CHOOSE i \in 1..10 : DigitChars[i] = c) - 1

\* the character class \d of a str pattern
IsDecimalChar(c) == c \in AsciiDigits \cup UnicodeDigits

\* str.isdigit(): at least one character and every character a digit
StrIsDigit(s) == Len(s) > 0 /\ \A i \in 1..Len(s) : s[i] \in AsciiDigits \cup UnicodeDigits

RECURSIVE StrToInt(_)
StrToInt(s) == IF Len(s) = 0 THEN 0
               ELSE 10 * StrToInt(SubSeq(s, 1, Len(s) - 1)) + DigitVal(s[Len(s)])

Rep(c, n) == [i \in 1..n |-> c]

\* Optional values: None is the empty sequence, a present value v is <<v>>
None == <<>>
Some(v) == <<v>>

(* Exceptions: the type and the message (a format and its arguments) *)
NoExc == [type |-> "none", fmt |-> "", args |-> <<>>]
Raise(t, f, a) == [type |-> t, fmt |-> f, args |-> a]

----------------------------------------------------------------------------
(* Fields *)

\* Phone.__init__: the stored value, or ValueError
Phone(value) ==
    IF ~StrIsDigit(value) \/ Len(value) # PhoneLen
    THEN [exc |-> Raise("ValueError", "Phone must be a 10-digit string", <<>>), value |-> None]
    ELSE [exc |-> NoExc, value |-> Some(value)]

(* datetime.date *)
IsLeap(y) == y % 4 = 0 /\ (y % 100 # 0 \/ y % 400 = 0)

DaysInMonth(y, m) ==
    IF m = 2 /\ IsLeap(y) THEN 29
    ELSE <<31, 28, 31, 30, 31, 30, 31, 31, 30, 31, 30, 31>>[m]

DaysBeforeYear(y) == (y - 1) * 365 + (y - 1) \div 4 - (y - 1) \div 100 + (y - 1) \div 400

DaysBeforeMonth(y, m) ==
    <<0, 31, 59, 90, 120, 151, 181, 212, 243, 273, 304, 334>>[m]
      + (IF m > 2 /\ IsLeap(y) THEN 1 ELSE 0)

\* datetime.date(y, m, d) is constructible
DateValid(y, m, d) ==
    /\ y \in 1..9999
    /\ m \in 1..12
    /\ d >= 1 /\ d <= DaysInMonth(y, m)

MkDate(y, m, d) == [year |-> y, month |-> m, day |-> d]

\* date.toordinal(): 0001-01-01 is day 1
ToOrdinal(dt) == DaysBeforeYear(dt.year) + DaysBeforeMonth(dt.year, dt.month) + dt.day

\* date.fromordinal()
FromOrdinal(n) ==
    LET est == (n * 400) \div 146097 + 1
        y == CHOOSE yy \in (est - 1)..(est + 1) :
                 DaysBeforeYear(yy) < n /\ n <= DaysBeforeYear(yy + 1)
        r == n - DaysBeforeYear(y)
        m == CHOOSE mm \in 1..12 :
                 DaysBeforeMonth(y, mm) < r /\ r <= DaysBeforeMonth(y, mm) + DaysInMonth(y, mm)
    IN MkDate(y, m, r - DaysBeforeMonth(y, m))

\* date + timedelta(days=k)
AddDays(dt, k) == FromOrdinal(ToOrdinal(dt) + k)

\* date.weekday(): Monday is 0, Sunday is 6
Weekday(dt) == (ToOrdinal(dt) + 6) % 7

DateLess(a, b) == ToOrdinal(a) < ToOrdinal(b)
DateLeq(a, b) == ToOrdinal(a) <= ToOrdinal(b)

(* datetime.strptime(value, "%d.%m.%Y") *)
\* positions of the dots of s
DotPositions(s) == {i \in 1..Len(s) : s[i] = "."}

\* %d: 3[0-1] | [1-2]\d | 0[1-9] | [1-9]
DayFieldOk(f) ==
    \/ /\ Len(f) = 2
       /\ \/ f[1] = "3" /\ f[2] \in {"0", "1"}
          \/ f[1] \in {"1", "2"} /\ IsDecimalChar(f[2])
          \/ f[1] = "0" /\ f[2] \in AsciiDigits \ {"0"}
    \/ Len(f) = 1 /\ f[1] \in AsciiDigits \ {"0"}

\* %m: 1[0-2] | 0[1-9] | [1-9]
MonthFieldOk(f) ==
    \/ /\ Len(f) = 2
       /\ \/ f[1] = "1" /\ f[2] \in {"0", "1", "2"}
          \/ f[1] = "0" /\ f[2] \in AsciiDigits \ {"0"}
    \/ Len(f) = 1 /\ f[1] \in AsciiDigits \ {"0"}

\* %Y: \d\d\d\d
YearFieldOk(f) == Len(f) = 4 /\ \A i \in 1..4 : IsDecimalChar(f[i])

\* the parsed date as an optional value: None when strptime raises
Strptime(s) ==
    LET dots == DotPositions(s) IN
    IF Cardinality(dots) # 2 THEN None
    ELSE LET p1 == CHOOSE i \in dots : \A j \in dots : i <= j
             p2 == CHOOSE i \in dots : \A j \in dots : j <= i
             fd == SubSeq(s, 1, p1 - 1)
             fm == SubSeq(s, p1 + 1, p2 - 1)
             fy == SubSeq(s, p2 + 1, Len(s))
         IN IF ~(DayFieldOk(fd) /\ MonthFieldOk(fm) /\ YearFieldOk(fy)) THEN None
            ELSE IF ~DateValid(StrToInt(fy), StrToInt(fm), StrToInt(fd)) THEN None
            ELSE Some(MkDate(StrToInt(fy), StrToInt(fm), StrToInt(fd)))

\* two decimal digits, zero padded
Fmt2(n) == <<DigitChars[(n \div 10) + 1], DigitChars[(n % 10) + 1]>>

\* the text DD.MM.YYYY of a day, a month and a four-digit year
DateStr(d, m, y) ==
    Fmt2(d) \o <<".">> \o Fmt2(m) \o <<".">> \o Fmt2(y \div 100) \o Fmt2(y % 100)

\* date.strftime("%d.%m.%Y")
Strftime(dt) == DateStr(dt.day, dt.month, dt.year)

\* Birthday.__init__: the stored value is the string itself, or ValueError
Birthday(value) ==
    IF Strptime(value) = None
    THEN [exc |-> Raise("ValueError", "Invalid date format. Use DD.MM.YYYY", <<>>), value |-> None]
    ELSE [exc |-> NoExc, value |-> Some(value)]

----------------------------------------------------------------------------
(* Record *)

\* Record.__init__
NewRecord(name) == [name |-> name, phones |-> <<>>, birthday |-> None]

\* Record.find_phone: the first stored phone whose value is phone_str, or None
find_phone(r, phone_str) ==
    LET hits == {i \in 1..Len(r.phones) : r.phones[i] = phone_str} IN
    IF hits = {} THEN None
    ELSE Some(r.phones[CHOOSE i \in hits : \A j \in hits : i <= j])

\* list.remove(x): the list without its first element equal to x
ListRemove(l, x) ==
    LET k == CHOOSE i \in 1..Len(l) : l[i] = x /\ \A j \in 1..(i - 1) : l[j] # x
    IN SubSeq(l, 1, k - 1) \o SubSeq(l, k + 1, Len(l))

\* add_phone without the look-up of the number among the stored phones
add_phone_unchecked(r, new_phone) ==
    LET phone == Phone(new_phone) IN
    IF phone.exc # NoExc THEN [rec |-> r, exc |-> phone.exc]
    ELSE [rec |-> [r EXCEPT !.phones = Append(@, phone.value[1])], exc |-> NoExc]

\* Record.add_phone
add_phone(r, new_phone) ==
    IF find_phone(r, new_phone) # None
    THEN [rec |-> r,
          exc |-> Raise("ValueError", "Phone number {new_phone} already exists for {name}",
                        <<new_phone, r.name>>)]
    ELSE LET phone == Phone(new_phone) IN
         IF phone.exc # NoExc THEN [rec |-> r, exc |-> phone.exc]
         ELSE [rec |-> [r EXCEPT !.phones = Append(@, phone.value[1])], exc |-> NoExc]

\* Record.remove_phone
remove_phone(r, rem_phone) ==
    LET phone_obj == find_phone(r, rem_phone) IN
    IF phone_obj # None
    THEN [rec |-> [r EXCEPT !.phones = ListRemove(@, phone_obj[1])], exc |-> NoExc]
    ELSE [rec |-> r,
          exc |-> Raise("ValueError", "Phone number {rem_phone} not found", <<rem_phone>>)]

\* edit_phone that forgets to remove the old number
edit_phone_keeps_old(r, old, new) ==
    IF find_phone(r, old) = None
    THEN [rec |-> r, exc |-> Raise("ValueError", "Phone number {old} not found", <<old>>)]
    ELSE add_phone(r, new)

\* edit_phone that removes the old number before it adds the new one
edit_phone_remove_first(r, old, new) ==
    IF find_phone(r, old) = None
    THEN [rec |-> r, exc |-> Raise("ValueError", "Phone number {old} not found", <<old>>)]
    ELSE LET removed == remove_phone(r, old)
             added == add_phone(removed.rec, new)
         IN added

\* Record.edit_phone
edit_phone(r, old, new) ==
    IF find_phone(r, old) = None
    THEN [rec |-> r, exc |-> Raise("ValueError", "Phone number {old} not found", <<old>>)]
    ELSE LET added == add_phone(r, new) IN
         IF added.exc # NoExc THEN added
         ELSE remove_phone(added.rec, old)

\* add_birthday that overwrites a birthday already set
add_birthday_overwrites(r, bday_value) ==
    LET bday == Birthday(bday_value) IN
    IF bday.exc # NoExc THEN [rec |-> r, exc |-> bday.exc]
    ELSE [rec |-> [r EXCEPT !.birthday = bday.value], exc |-> NoExc]

\* Record.add_birthday
add_birthday(r, bday_value) ==
    IF r.birthday # None
    THEN [rec |-> r,
          exc |-> Raise("ValueError", "Birthday already set for this contact", <<>>)]
    ELSE LET bday == Birthday(bday_value) IN
         IF bday.exc # NoExc THEN [rec |-> r, exc |-> bday.exc]
         ELSE [rec |-> [r EXCEPT !.birthday = bday.value], exc |-> NoExc]

----------------------------------------------------------------------------
(* Inputs *)

\* the i-th well-formed ASCII phone number: the digit i followed by zeros
PhoneTok(i) == <<DigitChars[i + 1]>> \o Rep("0", PhoneLen - 1)

\* ten digits, the first of them outside 0-9
UnicodePhone == <<"U+0663">> \o Rep("0", PhoneLen - 1)

MalformedPhones ==
    { Rep("1", PhoneLen - 1), Rep("1", PhoneLen + 1), <<"a">> \o Rep("0", PhoneLen - 1) }

RecPhoneInputs == {PhoneTok(i) : i \in 1..NumPhones} \cup {UnicodePhone} \cup MalformedPhones

RecDateInputs ==
    { DateStr(12, 6, 2020), <<"1", ".", "6", ".", "2", "0", "2", "0">>, DateStr(29, 2, 2023) }

NameTok(i) == <<<<"A", "B", "C", "D", "E">>[i]>>

----------------------------------------------------------------------------
(* A single Record driven through its methods *)

CallRecord(op, args, res, ret) ==
    /\ rec' = res.rec
    /\ rlast' = [op |-> op, args |-> args, pre |-> rec, exc |-> res.exc, ret |-> ret]
    /\ UNCHANGED <<book, last, loop>>

RecAddPhone == \E p \in RecPhoneInputs :
    CallRecord("add_phone", <<p>>, add_phone(rec, p), None)

RecRemovePhone == \E p \in RecPhoneInputs :
    CallRecord("remove_phone", <<p>>, remove_phone(rec, p), None)

RecEditPhone == \E old \in RecPhoneInputs, new \in RecPhoneInputs :
    CallRecord("edit_phone", <<old, new>>, edit_phone(rec, old, new), None)

RecFindPhone == \E p \in RecPhoneInputs :
    CallRecord("find_phone", <<p>>, [rec |-> rec, exc |-> NoExc], find_phone(rec, p))

RecAddBirthday == \E b \in RecDateInputs :
    CallRecord("add_birthday", <<b>>, add_birthday(rec, b), None)

RecInit ==
    /\ rec = NewRecord(NameTok(1))
    /\ rlast = [op |-> "init", args |-> <<>>, pre |-> NewRecord(NameTok(1)),
                exc |-> NoExc, ret |-> None]
    /\ book = <<>>
    /\ last = [cmd |-> "", exc |-> NoExc, out |-> [fmt |-> "", args |-> <<>>],
               today |-> MkDate(0, 0, 0), upcoming |-> <<>>]
    /\ loop = "running"

RecNext ==
    \/ RecAddPhone
    \/ RecRemovePhone
    \/ RecEditPhone
    \/ RecFindPhone
    \/ RecAddBirthday

SpecRec == RecInit /\ [][RecNext]_vars

----------------------------------------------------------------------------
(* AddressBook: the records in insertion order, one per name *)

\* AddressBook.find: the record stored under name_str, or None
find(b, name_str) ==
    IF \E i \in 1..Len(b) : b[i].name = name_str
    THEN Some(b[CHOOSE i \in 1..Len(b) : b[i].name = name_str])
    ELSE None

\* AddressBook.add_record: the entry of record.name is set; a new key goes last
add_record(b, record) ==
    IF \E i \in 1..Len(b) : b[i].name = record.name
    THEN [i \in 1..Len(b) |-> IF b[i].name = record.name THEN record ELSE b[i]]
    ELSE Append(b, record)

\* Candidate without the move to the next year of a date before today
Candidate_no_rollover(bday_dt, today) ==
    IF ~DateValid(today.year, bday_dt.month, bday_dt.day)
    THEN [kind |-> "skip", date |-> today]
    ELSE [kind |-> "date", date |-> MkDate(today.year, bday_dt.month, bday_dt.day)]

\* the month and day of a birthday in the year of today, and in the next year
\* when that date is before today: "skip" when date(year, month, day) raises
\* (caught, the record is passed over), "raise" when date(year + 1, month, day)
\* raises (not caught)
Candidate(bday_dt, today) ==
    IF ~DateValid(today.year, bday_dt.month, bday_dt.day)
    THEN [kind |-> "skip", date |-> today]
    ELSE LET candidate == MkDate(today.year, bday_dt.month, bday_dt.day) IN
         IF DateLess(candidate, today)
         THEN IF ~DateValid(today.year + 1, bday_dt.month, bday_dt.day)
              THEN [kind |-> "raise", date |-> today]
              ELSE [kind |-> "date",
                    date |-> MkDate(today.year + 1, bday_dt.month, bday_dt.day)]
         ELSE [kind |-> "date", date |-> candidate]

\* a Saturday or Sunday moved to the Monday after it
Shifted(candidate) ==
    IF Weekday(candidate) = 5 THEN AddDays(candidate, SaturdayShift)
    ELSE IF Weekday(candidate) = 6 THEN AddDays(candidate, SundayShift)
    ELSE candidate

\* today <= shifted <= end_date
InWindow(shifted, today) ==
    DateLeq(today, shifted) /\ DateLeq(shifted, AddDays(today, WindowDays))

\* AddressBook.get_upcoming_birthdays: the loop over the records from the
\* i-th on, with the result so far
RECURSIVE UpcomingFrom(_, _, _, _)
UpcomingFrom(b, i, today, result) ==
    IF i > Len(b) THEN [exc |-> NoExc, result |-> result]
    ELSE IF b[i].birthday = None THEN UpcomingFrom(b, i + 1, today, result)
    ELSE LET bday_dt == Strptime(b[i].birthday[1])[1]
             c == Candidate(bday_dt, today)
         IN IF c.kind = "skip" THEN UpcomingFrom(b, i + 1, today, result)
            ELSE IF c.kind = "raise"
            THEN [exc |-> Raise("ValueError", "day is out of range for month", <<>>),
                  result |-> <<>>]
            ELSE IF InWindow(Shifted(c.date), today)
            THEN UpcomingFrom(b, i + 1, today,
                     Append(result, [name |-> b[i].name,
                                     birthday |-> Strftime(Shifted(c.date))]))
            ELSE UpcomingFrom(b, i + 1, today, result)

get_upcoming_birthdays(b, today) == UpcomingFrom(b, 1, today, <<>>)

----------------------------------------------------------------------------
(* Command handlers: what the undecorated function does *)

Text(f, a) == [fmt |-> f, args |-> a]
NoText == Text("", <<>>)

Returns(b, f, a) == [book |-> b, exc |-> NoExc, ret |-> Text(f, a)]
Raises(b, e) == [book |-> b, exc |-> e, ret |-> NoText]

\* unpacking args into n names
UnpackError == Raise("ValueError", "wrong number of values to unpack", <<>>)
KeyError == Raise("KeyError", "", <<>>)
IndexError == Raise("IndexError", "list index out of range", <<>>)

add_contact(args, b) ==
    IF Len(args) # 2 THEN Raises(b, UnpackError)
    ELSE LET name == args[1]
             phone == args[2]
             found == find(b, name)
         IN IF found = None
            THEN LET added == IF phone # <<>> THEN add_phone(NewRecord(name), phone)
                              ELSE [rec |-> NewRecord(name), exc |-> NoExc]
                 IN IF added.exc # NoExc THEN Raises(b, added.exc)
                    ELSE Returns(add_record(b, added.rec), "Contact added.", <<>>)
            ELSE IF phone # <<>>
                 THEN LET added == add_phone(found[1], phone) IN
                      IF added.exc # NoExc THEN Raises(b, added.exc)
                      ELSE Returns(add_record(b, added.rec),
                                   "Phone added to existing contact.", <<>>)
                 ELSE Returns(b, "Contact already exists.", <<>>)

change_contact(args, b) ==
    IF Len(args) # 3 THEN Raises(b, UnpackError)
    ELSE LET found == find(b, args[1]) IN
         IF found = None THEN Raises(b, KeyError)
         ELSE LET edited == edit_phone(found[1], args[2], args[3]) IN
              IF edited.exc # NoExc THEN Raises(b, edited.exc)
              ELSE Returns(add_record(b, edited.rec), "Phone updated.", <<>>)

show_phone(args, b) ==
    IF Len(args) = 0 THEN Raises(b, IndexError)
    ELSE LET found == find(b, args[1]) IN
         IF found = None THEN Raises(b, KeyError)
         ELSE Returns(b, "Contact for {name}: {phones}",
                      <<args[1]>> \o (IF found[1].phones # <<>> THEN found[1].phones
                                      ELSE <<<<"No phones">>>>))

\* one line per record: the name, the phones, the birthday
ShowAllLine(r) ==
    <<r.name>> \o (IF r.phones # <<>> THEN r.phones ELSE <<<<"no phones">>>>)
               \o (IF r.birthday # None THEN r.birthday ELSE <<<<"no birthday">>>>)

RECURSIVE ShowAllLines(_)
ShowAllLines(b) == IF b = <<>> THEN <<>> ELSE ShowAllLine(Head(b)) \o ShowAllLines(Tail(b))

show_all(b) ==
    IF b = <<>> THEN Returns(b, "No contacts found.", <<>>)
    ELSE Returns(b, "{name}: {phones}; birthday: {birthday}", ShowAllLines(b))

add_birthday_cmd(args, b) ==
    IF Len(args) # 2 THEN Raises(b, UnpackError)
    ELSE LET found == find(b, args[1]) IN
         IF found = None THEN Raises(b, KeyError)
         ELSE LET set == add_birthday(found[1], args[2]) IN
              IF set.exc # NoExc THEN Raises(b, set.exc)
              ELSE Returns(add_record(b, set.rec), "Birthday added.", <<>>)

show_birthday(args, b) ==
    IF Len(args) = 0 THEN Raises(b, IndexError)
    ELSE LET found == find(b, args[1]) IN
         IF found = None THEN Raises(b, KeyError)
         ELSE IF found[1].birthday # None
              THEN Returns(b, "{name}: {birthday}", <<args[1], found[1].birthday[1]>>)
              ELSE Returns(b, "Birthday for {name} not set.", <<args[1]>>)

RECURSIVE UpcomingLines(_)
UpcomingLines(u) ==
    IF u = <<>> THEN <<>> ELSE <<Head(u).name, Head(u).birthday>> \o UpcomingLines(Tail(u))

birthdays(args, b, today) ==
    LET upcoming == get_upcoming_birthdays(b, today) IN
    IF upcoming.exc # NoExc THEN Raises(b, upcoming.exc)
    ELSE IF upcoming.result = <<>> THEN Returns(b, "No upcoming birthdays.", <<>>)
    ELSE Returns(b, "{name}: {birthday}", UpcomingLines(upcoming.result))

\* input_error without the except clause for IndexError
input_error_no_index(res) ==
    IF res.exc = NoExc THEN [out |-> res.ret, escaped |-> FALSE]
    ELSE IF res.exc.type = "ValueError"
    THEN [out |-> Text("Enter the argument for the command", <<>>), escaped |-> FALSE]
    ELSE IF res.exc.type = "KeyError"
    THEN [out |-> Text("Contact not found.", <<>>), escaped |-> FALSE]
    ELSE [out |-> NoText, escaped |-> TRUE]

\* input_error: the string returned in place of a caught exception; an
\* exception of another type leaves the handler (escaped)
input_error(res) ==
    IF res.exc = NoExc THEN [out |-> res.ret, escaped |-> FALSE]
    ELSE IF res.exc.type = "ValueError"
    THEN [out |-> Text("Enter the argument for the command", <<>>), escaped |-> FALSE]
    ELSE IF res.exc.type = "KeyError"
    THEN [out |-> Text("Contact not found.", <<>>), escaped |-> FALSE]
    ELSE IF res.exc.type = "IndexError"
    THEN [out |-> Text("Enter the argument for the command", <<>>), escaped |-> FALSE]
    ELSE [out |-> NoText, escaped |-> TRUE]

\* show_all is not decorated
undecorated(res) ==
    IF res.exc = NoExc THEN [out |-> res.ret, escaped |-> FALSE]
    ELSE [out |-> NoText, escaped |-> TRUE]

----------------------------------------------------------------------------
(* The command loop of main *)

NoDate == MkDate(0, 0, 0)

\* nothing is waiting to be printed
Idle == [cmd |-> "", exc |-> NoExc, out |-> NoText, today |-> NoDate, upcoming |-> <<>>]

\* a line is read and its handler called: the loop holds the string the
\* handler returned, to print it, unless an exception left the handler
Dispatch(cmd, res, wrapped, today, upcoming) ==
    /\ loop = "running"
    /\ book' = res.book
    /\ last' = [cmd |-> cmd, exc |-> res.exc, out |-> wrapped.out,
                today |-> today, upcoming |-> upcoming]
    /\ loop' = IF wrapped.escaped THEN "crashed" ELSE "printing"
    /\ UNCHANGED <<rec, rlast>>

\* a line the loop answers itself with a fixed message
Say(cmd, f) ==
    /\ loop = "running"
    /\ last' = [cmd |-> cmd, exc |-> NoExc, out |-> Text(f, <<>>),
                today |-> NoDate, upcoming |-> <<>>]
    /\ loop' = "printing"
    /\ UNCHANGED <<book, rec, rlast>>

\* print(...): the loop goes back to input(), or breaks after close or exit
Output ==
    /\ loop = "printing"
    /\ loop' = IF last.cmd = "close" THEN "exited" ELSE "running"
    /\ last' = IF last.cmd = "close" THEN last ELSE Idle
    /\ UNCHANGED <<book, rec, rlast>>

CmdAdd(lists) == \E args \in lists :
    LET res == add_contact(args, book) IN Dispatch("add", res, input_error(res), NoDate, <<>>)

CmdChange(lists) == \E args \in lists :
    LET res == change_contact(args, book) IN Dispatch("change", res, input_error(res), NoDate, <<>>)

CmdPhone(lists) == \E args \in lists :
    LET res == show_phone(args, book) IN Dispatch("phone", res, input_error(res), NoDate, <<>>)

CmdAll ==
    LET res == show_all(book) IN Dispatch("all", res, undecorated(res), NoDate, <<>>)

CmdAddBirthday(lists) == \E args \in lists :
    LET res == add_birthday_cmd(args, book) IN
    Dispatch("add-birthday", res, input_error(res), NoDate, <<>>)

CmdShowBirthday(lists) == \E args \in lists :
    LET res == show_birthday(args, book) IN
    Dispatch("show-birthday", res, input_error(res), NoDate, <<>>)

CmdBirthdays(lists, todays) == \E args \in lists, today \in todays :
    LET res == birthdays(args, book, today) IN
    Dispatch("birthdays", res, input_error(res), today,
             get_upcoming_birthdays(book, today).result)

CmdHello == Say("hello", "How can I help you?")
CmdEmpty == Say("empty", "Please enter a command.")
CmdInvalid == Say("invalid", "Invalid command.")
CmdClose == Say("close", "Good bye!")

Init ==
    /\ book = <<>>
    /\ last = Idle
    /\ loop = "running"
    /\ rec = NewRecord(NameTok(1))
    /\ rlast = [op |-> "init", args |-> <<>>, pre |-> NewRecord(NameTok(1)),
                exc |-> NoExc, ret |-> None]

(* Every command, with argument lists of every length *)

BookNames == {NameTok(i) : i \in 1..NumNames}
BookPhones == {PhoneTok(i) : i \in 1..NumBookPhones} \cup {<<"a">> \o Rep("0", PhoneLen - 1)}
BookDates == { DateStr(29, 2, 2020), DateStr(12, 6, 2020), DateStr(31, 4, 2020) }
BookValues == BookPhones \cup BookDates

\* the argument lists: none, or a name and up to MaxArgs - 1 further words
ArgLists ==
    {<<>>} \cup
    UNION { {<<n>> \o v : n \in BookNames, v \in [1..k -> BookValues]} : k \in 0..(MaxArgs - 1) }

\* the dates date.today() returns
Anchors == { MkDate(2024, 6, 10), MkDate(2024, 12, 25), MkDate(2023, 2, 23), MkDate(2024, 2, 23) }
Todays == { AddDays(a, k) : a \in Anchors, k \in 0..(TodaySpan - 1) }

Next ==
    \/ CmdAdd(ArgLists)
    \/ CmdChange(ArgLists)
    \/ CmdPhone(ArgLists)
    \/ CmdAll
    \/ CmdAddBirthday(ArgLists)
    \/ CmdShowBirthday(ArgLists)
    \/ CmdBirthdays({a \in ArgLists : Len(a) <= 1}, Todays)
    \/ CmdHello
    \/ CmdEmpty
    \/ CmdInvalid
    \/ CmdClose
    \/ Output

Spec == Init /\ [][Next]_vars

(* The birthday commands, with well-formed argument lists, many birthdays *)
(* and many values of today                                               *)

BdayNames == {NameTok(i) : i \in 1..NumBdayNames}
BdayDates ==
    { DateStr(29, 2, 2020), DateStr(1, 1, 2000), DateStr(15, 6, 2020),
      DateStr(16, 6, 2020), DateStr(12, 6, 2020), DateStr(1, 6, 1990),
      DateStr(31, 4, 2020) }

BdayNext ==
    \/ CmdAdd({<<n, PhoneTok(1)>> : n \in BdayNames})
    \/ CmdAddBirthday({<<n, d>> : n \in BdayNames, d \in BdayDates})
    \/ CmdBirthdays({<<>>}, Todays)
    \/ Output

SpecBday == Init /\ [][BdayNext]_vars

----------------------------------------------------------------------------
(* Properties of Record, under SpecRec *)

\* a phone number as the specification defines it: exactly ten characters 0-9
IsTenAsciiDigits(s) == Len(s) = PhoneLen /\ \A i \in 1..Len(s) : s[i] \in AsciiDigits

Stored(r, p) == \E i \in 1..Len(r.phones) : r.phones[i] = p

\* C1: after any sequence of add_phone, remove_phone and edit_phone calls,
\* successful or failing, no two phones of the record have the same digit
\* string; add_phone of a number already stored fails and leaves the number
\* of phones unchanged.
C1_NoDuplicatePhones ==
    /\ \A i, j \in 1..Len(rec.phones) : i # j => rec.phones[i] # rec.phones[j]
    /\ (rlast.op = "add_phone" /\ Stored(rlast.pre, rlast.args[1]))
         => /\ rlast.exc.type = "ValueError"
            /\ Len(rec.phones) = Len(rlast.pre.phones)

C1_Witness ==
    /\ rlast.op = "add_phone"
    /\ Stored(rlast.pre, rlast.args[1])
    /\ Len(rlast.pre.phones) >= 2
    /\ rlast.exc.type = "ValueError"

\* C2: when old is stored and new is a valid phone that is not stored,
\* edit_phone(old, new) succeeds; afterwards find_phone(old) is absent,
\* find_phone(new) is present, every other stored phone is still stored and
\* the number of phones is unchanged.
C2_EditReplaces ==
    (/\ rlast.op = "edit_phone"
     /\ Stored(rlast.pre, rlast.args[1])
     /\ IsTenAsciiDigits(rlast.args[2])
     /\ ~Stored(rlast.pre, rlast.args[2]))
    => /\ rlast.exc = NoExc
       /\ find_phone(rec, rlast.args[1]) = None
       /\ find_phone(rec, rlast.args[2]) = Some(rlast.args[2])
       /\ \A i \in 1..Len(rlast.pre.phones) :
             rlast.pre.phones[i] # rlast.args[1] => Stored(rec, rlast.pre.phones[i])
       /\ Len(rec.phones) = Len(rlast.pre.phones)

C2_Witness ==
    /\ rlast.op = "edit_phone"
    /\ Stored(rlast.pre, rlast.args[1])
    /\ IsTenAsciiDigits(rlast.args[2])
    /\ ~Stored(rlast.pre, rlast.args[2])
    /\ Len(rlast.pre.phones) >= 2
    /\ rlast.exc = NoExc

\* C3: whenever edit_phone(old, new) fails, the phone list is exactly what it
\* was before the call, and the failure has one of the three causes: old is
\* not stored, new is already stored (new = old included), or new is not a
\* valid phone.
C3_EditFailureKeepsPhones ==
    (rlast.op = "edit_phone" /\ rlast.exc # NoExc)
    => /\ rec.phones = rlast.pre.phones
       /\ \/ ~Stored(rlast.pre, rlast.args[1])
          \/ Stored(rlast.pre, rlast.args[2])
          \/ ~IsTenAsciiDigits(rlast.args[2])

C3_Witness ==
    /\ rlast.op = "edit_phone"
    /\ rlast.exc # NoExc
    /\ Stored(rlast.pre, rlast.args[1])
    /\ ~Stored(rlast.pre, rlast.args[2])
    /\ ~IsTenAsciiDigits(rlast.args[2])
    /\ Len(rec.phones) >= 2

\* C4: once the record has a birthday, every add_birthday call fails, whatever
\* its argument, and no operation changes the stored birthday; the birthday
\* changes only from absent to a string that parses as a date.
C4_BirthdaySetOnce ==
    /\ (rlast.op = "add_birthday" /\ rlast.pre.birthday # None)
         => rlast.exc.type = "ValueError"
    /\ rlast.pre.birthday # None => rec.birthday = rlast.pre.birthday
    /\ rec.birthday # rlast.pre.birthday
         => rlast.pre.birthday = None /\ Strptime(rec.birthday[1]) # None

C4_Witness ==
    /\ rlast.op = "add_birthday"
    /\ rlast.pre.birthday # None
    /\ Strptime(rlast.args[1]) # None
    /\ rlast.args[1] # rlast.pre.birthday[1]
    /\ rlast.exc.type = "ValueError"

\* C10: Phone construction succeeds exactly for the strings of exactly ten
\* characters 0-9 and fails for every other string, so every stored phone is
\* such a string.
C10_PhoneIsTenAsciiDigits ==
    /\ (rlast.op = "add_phone" /\ ~Stored(rlast.pre, rlast.args[1]))
         => ((rlast.exc = NoExc) <=> IsTenAsciiDigits(rlast.args[1]))
    /\ \A i \in 1..Len(rec.phones) : IsTenAsciiDigits(rec.phones[i])

----------------------------------------------------------------------------
(* Properties of upcoming_birthdays, under SpecBday *)

\* the first Monday-to-Friday date from d on
MovedToMonday(d) ==
    AddDays(d, CHOOSE k \in 0..2 :
                  /\ Weekday(AddDays(d, k)) <= 4
                  /\ \A j \in 0..(k - 1) : Weekday(AddDays(d, j)) > 4)

MonthDay(r) == Strptime(r.birthday[1])[1]

\* the month and day of r exist in year y
ExistsIn(r, y) == DateValid(y, MonthDay(r).month, MonthDay(r).day)
OccurrenceIn(r, y) == MkDate(y, MonthDay(r).month, MonthDay(r).day)

\* the month and day of r in the year of today are before today
AlreadyPassed(r, today) ==
    /\ r.birthday # None
    /\ ExistsIn(r, today.year)
    /\ DateLess(OccurrenceIn(r, today.year), today)

\* the year in which the next occurrence of r is looked for
TargetYear(r, today) == IF AlreadyPassed(r, today) THEN today.year + 1 ELSE today.year

WithinWeek(d, today) == DateLeq(today, d) /\ DateLeq(d, AddDays(today, WindowDays))

\* r has a birthday whose next occurrence, moved off the weekend, is in the window
Qualifies(r, today) ==
    /\ r.birthday # None
    /\ ExistsIn(r, TargetYear(r, today))
    /\ WithinWeek(MovedToMonday(OccurrenceIn(r, TargetYear(r, today))), today)

RECURSIVE ExpectedUpcoming(_, _)
ExpectedUpcoming(b, today) ==
    IF b = <<>> THEN <<>>
    ELSE (IF Qualifies(Head(b), today)
          THEN <<[name |-> Head(b).name,
                  birthday |-> Strftime(MovedToMonday(
                                  OccurrenceIn(Head(b), TargetYear(Head(b), today))))]>>
          ELSE <<>>) \o ExpectedUpcoming(Tail(b), today)

HasEntry(name) == \E i \in 1..Len(last.upcoming) : last.upcoming[i].name = name

\* C5: upcoming_birthdays returns an entry for a record exactly when the record
\* has a birthday whose next occurrence, moved to Monday from a weekend, lies in
\* [today, today + 6 days]; the entry carries the moved date and the entries are
\* in directory insertion order.
C5_UpcomingExactly ==
    last.cmd = "birthdays" => last.upcoming = ExpectedUpcoming(book, last.today)

\* C6: when the month and day of a record do not exist in the target year (the
\* year of today, or the next year after rollover), the record is skipped and
\* the computation completes with the entries of all other qualifying records.
C6_InvalidDateSkipped ==
    (/\ last.cmd = "birthdays"
     /\ \E i \in 1..Len(book) :
           book[i].birthday # None /\ ~ExistsIn(book[i], TargetYear(book[i], last.today)))
    => /\ last.exc = NoExc
       /\ \A i \in 1..Len(book) : Qualifies(book[i], last.today) => HasEntry(book[i].name)

\* C8 as stated: a birthday whose month and day in the year of today are before
\* today is excluded from the result, for every value of today.
C8_PassedAlwaysExcluded ==
    last.cmd = "birthdays"
    => \A i \in 1..Len(book) : AlreadyPassed(book[i], last.today) => ~HasEntry(book[i].name)

\* C8, amended: a birthday whose month and day in the year of today are before
\* today is looked for at the same month and day of the next year, whatever the
\* stored year: its entry, if any, carries that date moved off the weekend, and
\* that date lies in [today, today + 6 days]; there is no entry when today + 6
\* days is still in the year of today.
C8_PassedRollsToNextYear ==
    last.cmd = "birthdays"
    => \A i \in 1..Len(book) : AlreadyPassed(book[i], last.today)
          => /\ \A k \in 1..Len(last.upcoming) : last.upcoming[k].name = book[i].name
                   => /\ ExistsIn(book[i], last.today.year + 1)
                      /\ last.upcoming[k].birthday =
                            Strftime(MovedToMonday(OccurrenceIn(book[i], last.today.year + 1)))
                      /\ WithinWeek(MovedToMonday(OccurrenceIn(book[i], last.today.year + 1)),
                                    last.today)
             /\ AddDays(last.today, WindowDays).year = last.today.year
                   => ~HasEntry(book[i].name)

C8_Witness ==
    /\ last.cmd = "birthdays"
    /\ \E i \in 1..Len(book) : AlreadyPassed(book[i], last.today) /\ HasEntry(book[i].name)
    /\ \E i \in 1..Len(book) : AlreadyPassed(book[i], last.today) /\ ~HasEntry(book[i].name)

----------------------------------------------------------------------------
(* Properties of the command handlers, under Spec *)

SpecificMessages ==
    { "Phone number {new_phone} already exists for {name}",
      "Phone number {old} not found",
      "Birthday already set for this contact" }

GenericMessage == Text("Enter the argument for the command", <<>>)

\* C7: when the failure is a duplicate phone, a phone not found in the record
\* or a birthday already set, the handler (add, change, add-birthday) returns
\* the message of that failure verbatim, which is not the generic message.
C7_SpecificMessageSurfaced ==
    (last.cmd \in {"add", "change", "add-birthday"} /\ last.exc.fmt \in SpecificMessages)
    => /\ last.out = Text(last.exc.fmt, last.exc.args)
       /\ last.out # GenericMessage

HandlerCmds == {"add", "change", "phone", "all", "add-birthday", "show-birthday", "birthdays"}

\* C9: every command handler returns a display string for every argument list
\* in every reachable directory: no exception leaves a handler, the loop stops
\* only on close or exit, and the directory keeps one record per name.
C9_HandlersReturnStrings ==
    /\ loop # "crashed"
    /\ last.cmd \in HandlerCmds => last.out # NoText
    /\ loop = "exited" => last.cmd = "close"
    /\ \A i, j \in 1..Len(book) : i # j => book[i].name # book[j].name

C9_Witness ==
    /\ last.cmd = "birthdays"
    /\ last.exc.type = "ValueError"
    /\ loop = "printing"
    /\ Len(book) >= 2

====
